---- MODULE Spec2Model ----
(***************************************************************************)
(* A model of report_hours.py: the Report class that parses a line-by-line *)
(* log of hours worked (directives and hours records) and reports totals.  *)
(*                                                                         *)
(* Abstractions.                                                           *)
(*  - A line is modelled after tokenisation: the text before any '#' is    *)
(*    given as its whitespace-separated tokens (the part before "--") and  *)
(*    its comment (the part after "--").  The argument of :expect is given *)
(*    as its comma-separated parts.                                        *)
(*  - A token is a word (with its text), an integer literal, a decimal     *)
(*    literal, or a text that matches timespan_re completely.              *)
(*  - Every quantity of hours is an integer number of MINUTES (7.5 hours   *)
(*    is 450).  The literals and expected hours of the model are multiples *)
(*    of a quarter of an hour, for which the program's floating point      *)
(*    sums are exact.                                                      *)
(***************************************************************************)
EXTENDS Integers, Sequences, FiniteSets, TLC

(***************************************************************************)
(* Bounds of the model.                                                    *)
(***************************************************************************)
MaxLines == 2        \* lines supplied by the line source
MaxSpans == 2        \* timespans written after "for"
MaxParts == 2        \* comma-separated parts of an :expect directive

(***************************************************************************)
(* Module-level tables of the program.                                     *)
(***************************************************************************)
DAYS == <<"Mon", "Tue", "Wed", "Thu", "Fri", "Sat", "Sun">>

DayNames == {DAYS[i] : i \in 1..7}

MONTHS == [Jan |-> 1, Feb |-> 2, Mar |-> 3, Apr |-> 4, May |-> 5, Jun |-> 6,
           Jul |-> 7, Aug |-> 8, Sep |-> 9, Oct |-> 10, Nov |-> 11, Dec |-> 12]

\* Report.hours_per_day, the class-level defaults (in minutes)
DefaultHoursPerDay ==
    [d \in DayNames |-> IF d \in {"Sat", "Sun"} THEN 0 ELSE 450]

(***************************************************************************)
(* Tokens.                                                                 *)
(***************************************************************************)
Word(w) == [k |-> "word", w |-> w, a |-> 0, b |-> 0, c |-> 0, d |-> 0]
IntTok(n) == [k |-> "int", w |-> "", a |-> n, b |-> 0, c |-> 0, d |-> 0]
\* a decimal literal such as 6.5, given by its value in minutes
FloatTok(m) == [k |-> "float", w |-> "", a |-> m, b |-> 0, c |-> 0, d |-> 0]
\* the text h1:m1..h2:m2, which timespan_re matches completely
SpanTok(h1, m1, h2, m2) ==
    [k |-> "span", w |-> "", a |-> h1, b |-> m1, c |-> h2, d |-> m2]

\* the text of a token as far as name lookups are concerned: a number or
\* a timespan is the name of no day, month or keyword
Text(tok) == IF tok.k = "word" THEN tok.w ELSE "<not a name>"

\* str.capitalize() on the words of the model's vocabulary
Capitalize(w) ==
    CASE w \in {"mon", "MON"} -> "Mon"
      [] w \in {"tue", "TUE"} -> "Tue"
      [] w \in {"sep", "SEP"} -> "Sep"
      [] w = "fred" -> "Fred"
      [] w = "for" -> "For"
      [] OTHER -> w

\* int(text): succeeds on an integer literal only
IsInt(tok) == tok.k = "int"

\* float(text): succeeds on an integer or a decimal literal
IsFloat(tok) == tok.k \in {"int", "float"}

\* the value of float(text), in minutes
FloatValue(tok) == IF tok.k = "int" THEN 60 * tok.a ELSE tok.a

(***************************************************************************)
(* datetime.date                                                           *)
(***************************************************************************)
NoDate == [y |-> 0, m |-> 0, d |-> 0]

IsLeap(y) == (y % 4 = 0) /\ ((y % 100 # 0) \/ (y % 400 = 0))

DaysInMonth(y, m) ==
    CASE m = 2 -> IF IsLeap(y) THEN 29 ELSE 28
      [] m \in {4, 6, 9, 11} -> 30
      [] OTHER -> 31

\* datetime.date(y, m, d) raises ValueError unless this holds
ValidDate(y, m, d) ==
    /\ y >= 1 /\ y <= 9999
    /\ m >= 1 /\ m <= 12
    /\ d >= 1 /\ d <= DaysInMonth(y, m)

RECURSIVE DaysBeforeMonth(_, _)
DaysBeforeMonth(y, m) ==
    IF m <= 1 THEN 0 ELSE DaysBeforeMonth(y, m - 1) + DaysInMonth(y, m - 1)

\* date.toordinal()
ToOrdinal(date) ==
    LET y1 == date.y - 1
    IN  y1 * 365 + (y1 \div 4) - (y1 \div 100) + (y1 \div 400)
          + DaysBeforeMonth(date.y, date.m) + date.d

\* date.weekday(): 0 is Monday
Weekday(date) == (ToOrdinal(date) + 6) % 7

\* date < date
DateLess(p, q) ==
    \/ p.y < q.y
    \/ p.y = q.y /\ p.m < q.m
    \/ p.y = q.y /\ p.m = q.m /\ p.d < q.d

(***************************************************************************)
(* Results of the parsing methods: either a record was returned            *)
(* (exc = "none", rec = TRUE), or nothing was (exc = "none", rec = FALSE), *)
(* or an exception was raised (exc is its class, kind tells which raise    *)
(* statement; date, day, correct and before are the dates and day names   *)
(* its message gives; lineno is the line number the message was wrapped    *)
(* with, 0 if none).                                                       *)
(***************************************************************************)
Raise(exc, kind, correct) ==
    [exc |-> exc, kind |-> kind, correct |-> correct, lineno |-> 0,
     rec |-> FALSE, date |-> NoDate, day |-> "", hours |-> 0, comment |-> "",
     before |-> NoDate]

GiveUp(kind) == Raise("GiveUp", kind, "")

Nothing == Raise("none", "", "")

Return(date, day, hours, comment) ==
    [exc |-> "none", kind |-> "", correct |-> "", lineno |-> 0,
     rec |-> TRUE, date |-> date, day |-> day, hours |-> hours,
     comment |-> comment, before |-> NoDate]

(***************************************************************************)
(* Report.parse_hours_line                                                 *)
(***************************************************************************)
\* line 341: the number of tokens, and the 4th token when there are more
FormatOk(spec) ==
    ~ (Len(spec) < 4 \/ (Len(spec) > 4 /\ Text(spec[4]) \notin {"for", "holiday"}))

\* the check of the day name left out
DayMatchesMutant(date, day_name) == TRUE

\* line 367: the day name given is the one the calendar gives
DayMatches(date, day_name) == DAYS[Weekday(date) + 1] = day_name

\* datetime.timedelta(hours=h, minutes=m), in minutes; it raises nothing
\* for the digits timespan_re lets through
TimeDelta(h, m) == 60 * h + m

\* > written for >=
PositiveSpanMutant(start_time, end_time) == ~ (start_time > end_time)

\* line 388
PositiveSpan(start_time, end_time) == ~ (start_time >= end_time)

\* lines 391-392: delta.seconds / (60*60), in minutes.  The seconds field
\* of a timedelta leaves out its whole days.
DeltaHours(start_time, end_time) ==
    LET delta == end_time - start_time
    IN  ((delta * 60) % 86400) \div 60

\* lines 374-393: the loop over the spans, from span i on, hours so far
RECURSIVE SpanLoop(_, _, _)
SpanLoop(spans, i, hours) ==
    IF i > Len(spans) THEN [kind |-> "", hours |-> hours]
    ELSE LET span == spans[i]
             start_time == TimeDelta(span.a, span.b)
             end_time == TimeDelta(span.c, span.d)
         IN  IF span.k # "span"
             THEN [kind |-> "not a timespan", hours |-> 0]
             ELSE IF ~ PositiveSpan(start_time, end_time)
             THEN [kind |-> "not a positive timespan", hours |-> 0]
             ELSE SpanLoop(spans, i + 1, hours + DeltaHours(start_time, end_time))

\* the defaults of the class read for the table of the Report
KeywordHoursMutant(hours_per_day, day_name) == DefaultHoursPerDay[day_name]

\* line 395
KeywordHours(hours_per_day, day_name) == hours_per_day[day_name]

parse_hours_line(spec, comment, hours_per_day, year) ==
    IF ~ FormatOk(spec) THEN GiveUp("format")
    ELSE
    LET day_name == Capitalize(Text(spec[1]))
        month == Capitalize(Text(spec[3]))
        day == spec[2].a
        date == [y |-> year, m |-> MONTHS[month], d |-> day]
    IN  IF day_name \notin DOMAIN hours_per_day THEN GiveUp("day name")
        ELSE IF month \notin DOMAIN MONTHS THEN GiveUp("month name")
        ELSE IF ~ IsInt(spec[2]) THEN GiveUp("integer day")
        ELSE IF ~ ValidDate(year, MONTHS[month], day)
             THEN Raise("ValueError", "date", "")
        ELSE IF ~ DayMatches(date, day_name)
             THEN [Raise("GiveUp", "should be", DAYS[Weekday(date) + 1])
                       EXCEPT !.date = date, !.day = day_name]
        ELSE IF Text(spec[4]) = "for"
             THEN LET r == SpanLoop(SubSeq(spec, 5, Len(spec)), 1, 0)
                  IN  IF r.kind # "" THEN GiveUp(r.kind)
                      ELSE Return(date, day_name, r.hours, comment)
        ELSE IF Text(spec[4]) \in {"holiday", "pubhol", "sick"}
             THEN Return(date, day_name,
                         KeywordHours(hours_per_day, day_name), comment)
        ELSE IF IsFloat(spec[4])
             THEN Return(date, day_name, FloatValue(spec[4]), comment)
        ELSE IF spec[4].k = "span" THEN GiveUp("hours, did you mean for")
        ELSE GiveUp("hours")

(***************************************************************************)
(* Directives: Report.set_hours, set_year, set_project_days,               *)
(* parse_colon_text.  A configuration is the three fields of the Report.   *)
(***************************************************************************)
Config(hpd, y, pd) == [hours_per_day |-> hpd, year |-> y, project_days |-> pd]

\* one comma-separated part of the text given to set_hours: shape tells
\* whether it holds a blank ("ws"), is not <a>=<b> ("noeq") or is ("ok")
Part(shape, day, val) == [shape |-> shape, day |-> day, val |-> val]

\* the table built anew from the defaults of the class
SetDayMutant(hpd, day_name, hours) ==
    [d \in DOMAIN hpd |->
        IF d = Capitalize(day_name) THEN hours ELSE DefaultHoursPerDay[d]]

\* line 187: the assignment of one part
SetDay(hpd, day_name, hours) ==
    [hpd EXCEPT ![Capitalize(day_name)] = hours]

\* lines 174-187: the loop over the parts, from part i on.  A part that
\* fails leaves the assignments of the parts before it in place.
RECURSIVE set_hours(_, _, _)
set_hours(hpd, parts, i) ==
    IF i > Len(parts) THEN [hours_per_day |-> hpd, kind |-> ""]
    ELSE LET part == parts[i]
         IN  IF part.shape = "ws"
             THEN [hours_per_day |-> hpd, kind |-> "contains whitespace"]
             ELSE IF part.shape # "ok"
             THEN [hours_per_day |-> hpd, kind |-> "not <day-name>=<hours>"]
             ELSE IF Capitalize(part.day) \notin DOMAIN hpd
             THEN [hours_per_day |-> hpd, kind |-> "not a recognised day name"]
             ELSE IF ~ IsFloat(part.val)
             THEN [hours_per_day |-> hpd, kind |-> "not a floating point number"]
             ELSE set_hours(SetDay(hpd, part.day, FloatValue(part.val)),
                            parts, i + 1)

\* int(text.strip()) of the text after the colon word
IntText(rest) == Len(rest) = 1 /\ IsInt(rest[1])

\* the result of a directive: the configuration it leaves and the kind of
\* GiveUp it raised ("" if none)
set_year(cfg, rest) ==
    IF IntText(rest)
    THEN [cfg |-> [cfg EXCEPT !.year = rest[1].a], kind |-> ""]
    ELSE [cfg |-> cfg, kind |-> "not an integer year"]

set_project_days(cfg, rest) ==
    IF IntText(rest)
    THEN [cfg |-> [cfg EXCEPT !.project_days = <<rest[1].a>>], kind |-> ""]
    ELSE [cfg |-> cfg, kind |-> "not an integer number of days"]

\* :days bound to set_year in colon_methods
parse_colon_text_mutant(cfg, colon_word, rest, parts) ==
    CASE colon_word \in {":year", ":days"} -> set_year(cfg, rest)
      [] colon_word = ":expect" ->
            LET r == set_hours(cfg.hours_per_day, parts, 1)
            IN  [cfg |-> [cfg EXCEPT !.hours_per_day = r.hours_per_day],
                 kind |-> r.kind]
      [] OTHER -> [cfg |-> cfg, kind |-> "Unrecognised colon-command"]

parse_colon_text(cfg, colon_word, rest, parts) ==
    CASE colon_word = ":year" -> set_year(cfg, rest)
      [] colon_word = ":days" -> set_project_days(cfg, rest)
      [] colon_word = ":expect" ->
            LET r == set_hours(cfg.hours_per_day, parts, 1)
            IN  [cfg |-> [cfg EXCEPT !.hours_per_day = r.hours_per_day],
                 kind |-> r.kind]
      [] OTHER -> [cfg |-> cfg, kind |-> "Unrecognised colon-command"]

(***************************************************************************)
(* Report.parse_line.  A line is the tokens of its text before "--" and    *)
(* "#", the parts of the argument of :expect, and its comment.             *)
(***************************************************************************)
Line(toks, parts, comment) ==
    [toks |-> toks, parts |-> parts, comment |-> comment]

ColonWords == {":year", ":expect", ":days", ":fred"}

\* parts[0].startswith(':')
StartsWithColon(tok) == Text(tok) \in ColonWords

\* the configuration the line leaves, and what it returned or raised
parse_line(cfg, text) ==
    IF text.toks = <<>> THEN [cfg |-> cfg, res |-> Nothing]
    ELSE IF StartsWithColon(text.toks[1])
    THEN LET r == parse_colon_text(cfg, Text(text.toks[1]),
                                   Tail(text.toks), text.parts)
         IN  [cfg |-> r.cfg,
              res |-> IF r.kind = "" THEN Nothing ELSE GiveUp(r.kind)]
    ELSE [cfg |-> cfg,
          res |-> parse_hours_line(text.toks, text.comment,
                                   cfg.hours_per_day, cfg.year)]

(***************************************************************************)
(* Comparison of the yielded tuples (date, day_name, hours, comment).      *)
(***************************************************************************)
\* the place of a text of the model in the order of str
StrRank(t) ==
    CASE t = "" -> 0
      [] t = "Fri" -> 1 [] t = "Mon" -> 2 [] t = "Sat" -> 3 [] t = "Sun" -> 4
      [] t = "Thu" -> 5 [] t = "Tue" -> 6 [] t = "Wed" -> 7
      [] t = "a" -> 8   [] t = "b" -> 9
      [] OTHER -> 10

\* line 491: data < prev, the order of tuples
TupleLess(data, prev) ==
    \/ DateLess(data.date, prev.date)
    \/ /\ data.date = prev.date
       /\ \/ StrRank(data.day) < StrRank(prev.day)
          \/ /\ data.day = prev.day
             /\ \/ data.hours < prev.hours
                \/ /\ data.hours = prev.hours
                   /\ StrRank(data.comment) < StrRank(prev.comment)

\* the test of line 491 left out
OutOfOrderMutant(prev, data) == FALSE

\* line 491: prev and data < prev; prev is <<>> for None
OutOfOrder(prev, data) == prev # <<>> /\ TupleLess(data, prev[1])

(***************************************************************************)
(* Report.show_hours and Report.show_balance.  A picture is given by the   *)
(* number of characters of each of its runs, left to right.                *)
(***************************************************************************)
Max(a, b) == IF a >= b THEN a ELSE b

\* int(2 * x) for x in minutes: the half hours, rounded towards zero
HalfHours(x) == IF x >= 0 THEN x \div 30 ELSE -((-x) \div 30)

\* s * n is empty for n < 0
Times(n) == Max(n, 0)

show_hours(hours_per_day, day, hours) ==
    LET base == HalfHours(hours)
        norm == HalfHours(hours_per_day[day])
        width == 11 * 2
        stars == IF base <= norm THEN Times(base) ELSE Times(norm)
        miss == IF base < norm THEN Times(norm - base) ELSE 0
        extr == IF base > norm THEN Times(base - norm) ELSE 0
    IN  [stars |-> stars, miss |-> miss, extr |-> extr,
         pad |-> Max(width - (stars + miss + extr), 0)]

\* the spaces on the left not shortened by the run of minus signs
show_balance_mutant(balance) ==
    LET count == HalfHours(balance)
        before == 2 * 4
        after == 2 * 15
    IN  IF balance < 0
        THEN [lspace |-> before, minus |-> Times(-count), plus |-> 0,
              rspace |-> after]
        ELSE [lspace |-> before, minus |-> 0,
              plus |-> Times(count), rspace |-> Times(after - count)]

\* lines 526-553: the spaces and minus signs to the left of the marker,
\* the plus signs and spaces to its right
show_balance(balance) ==
    LET count == HalfHours(balance)
        before == 2 * 4
        after == 2 * 15
    IN  IF balance < 0
        THEN [lspace |-> Times(before + count), minus |-> Times(-count),
              plus |-> 0, rspace |-> after]
        ELSE [lspace |-> before, minus |-> 0,
              plus |-> Times(count), rspace |-> Times(after - count)]

(***************************************************************************)
(* The lines the line source may supply.                                   *)
(***************************************************************************)
Years == {2003, 2013}

\* the year of "today" when the Report is constructed
InitYears == {2013}

Comments == {"", "a"}

\* <day-name> <day> <month> of the dates 2 and 3 September, which are a
\* Tuesday and a Wednesday in 2003 and a Monday and a Tuesday in 2013
GoodHeads ==
    {<<Word("Mon"), IntTok(2), Word("Sep")>>,
     <<Word("Tue"), IntTok(3), Word("Sep")>>,
     <<Word("tue"), IntTok(2), Word("sep")>>,
     <<Word("Wed"), IntTok(3), Word("Sep")>>}

\* no day name, no integer day, no month name, no day of the month
BadHeads ==
    {<<Word("Xyz"), IntTok(2), Word("Sep")>>,
     <<Word("Mon"), Word("pardon"), Word("Sep")>>,
     <<Word("Mon"), IntTok(2), Word("Wednesday")>>,
     <<Word("Tue"), IntTok(31), Word("Sep")>>}

\* what may follow <day-name> <day> <month>, timespans apart
Tails ==
    {<<>>,
     <<FloatTok(0)>>, <<FloatTok(360)>>, <<IntTok(6)>>, <<Word("aagh")>>,
     <<SpanTok(9, 0, 12, 0)>>, <<FloatTok(360), Word("extra")>>,
     <<Word("holiday")>>, <<Word("pubhol")>>, <<Word("sick")>>,
     <<Word("holiday"), Word("extra")>>, <<Word("pubhol"), Word("extra")>>,
     <<Word("sick"), Word("extra")>>}

\* 9:00..12:00, 9:30..8:30, 9:30..9:30, 0:00..27:00, fred
SpanToks ==
    {SpanTok(9, 0, 12, 0), SpanTok(9, 30, 8, 30), SpanTok(9, 30, 9, 30),
     SpanTok(0, 0, 27, 0), Word("fred")}

RECURSIVE SeqsUpTo(_, _)
SeqsUpTo(S, n) ==
    IF n = 0 THEN {<<>>}
    ELSE LET T == SeqsUpTo(S, n - 1)
         IN  T \cup {Append(t, x) : t \in {u \in T : Len(u) = n - 1}, x \in S}

HoursLines ==
    {Line(head \o tail, <<>>, "") : head \in GoodHeads, tail \in Tails}
    \cup
    {Line(head \o <<FloatTok(360)>>, <<>>, comment) :
        head \in GoodHeads, comment \in Comments}
    \cup
    {Line(head \o <<FloatTok(360)>>, <<>>, "") : head \in BadHeads}
    \cup
    \* float() takes any decimal literal: Tue 3 Sep 19.0, Tue 3 Sep -3.0
    {Line(<<Word("Tue"), IntTok(3), Word("Sep"), hours>>, <<>>, "") :
        hours \in {FloatTok(1140), FloatTok(-180)}}

ForLines ==
    {Line(<<Word("Tue"), IntTok(3), Word("Sep"), Word("for")>> \o spans,
          <<>>, "") :
        spans \in SeqsUpTo(SpanToks, MaxSpans)}

\* Mon=6.0, tue=6.0, Tue=0.0, fred=99, mon=awkward, fred
ExpectParts ==
    {Part("ok", "Mon", FloatTok(360)), Part("ok", "tue", FloatTok(360)),
     Part("ok", "Tue", FloatTok(0)), Part("ok", "fred", IntTok(99)),
     Part("ok", "mon", Word("awkward")), Part("noeq", "fred", Word(""))}

ColonLines ==
    {Line(<<Word(":year")>> \o rest, <<>>, "") :
        rest \in {<<>>, <<Word("Fred")>>} \cup {<<IntTok(y)>> : y \in Years}}
    \cup
    {Line(<<Word(w)>> \o rest, <<>>, "") :
        w \in {":days", ":fred"}, rest \in {<<IntTok(20)>>, <<Word("Fred")>>}}
    \cup
    {Line(<<Word(":expect")>>, parts, "") :
        parts \in SeqsUpTo(ExpectParts, MaxParts) \ {<<>>}}

BlankLines == {Line(<<>>, <<>>, "")}

(***************************************************************************)
(* The state: the fields of the Report, the line the line source has       *)
(* handed to parse_lines, the argument and the locals of report_lines and  *)
(* of the parse_lines generator it drives, what was printed, and how the   *)
(* call ended.  The argument show_comments, which only decides whether a   *)
(* row ends with its comment, is left out: a row carries its comment.      *)
(***************************************************************************)
VARIABLES
    hours_per_day,   \* self.hours_per_day
    year,            \* self.year
    project_days,    \* self.project_days: <<>> is None, <<n>> is n
    with_graph,      \* argument of report_lines
    lineno,          \* parse_lines: lines taken from the line source
    line,            \* parse_lines: <<l>> is the line taken and not yet
                     \* dealt with, or the one that raised; else <<>>
    prev,            \* parse_lines: <<>> is None, else the last tuple yielded
    yielded,         \* the tuples parse_lines has yielded, in order
    shown_year,      \* report_lines: its local year, <<>> is None
    total, total_expected, total_extra, days_worked, week_total,
    first, last,     \* report_lines: <<>> is None, else a date
    expected_seen,   \* the values its local expected took, in order
    out,             \* the lines printed
    state,           \* "running", "done" or "raised"
    raised           \* the exception that escaped report_lines

cfgvars == <<hours_per_day, year, project_days>>
genvars == <<prev, yielded>>
repvars == <<shown_year, total, total_expected, total_extra, days_worked,
             week_total, first, last, expected_seen, out>>
vars == <<cfgvars, with_graph, lineno, line, genvars, repvars, state, raised>>

Init ==
    /\ hours_per_day = DefaultHoursPerDay
    /\ year \in InitYears
    /\ project_days = <<>>
    /\ with_graph \in BOOLEAN
    /\ lineno = 0
    /\ line = <<>>
    /\ prev = <<>>
    /\ yielded = <<>>
    /\ shown_year = <<>>
    /\ total = 0 /\ total_expected = 0 /\ total_extra = 0
    /\ days_worked = 0 /\ week_total = 0
    /\ first = <<>> /\ last = <<>>
    /\ expected_seen = <<>>
    /\ out = <<>>
    /\ state = "running"
    /\ raised = Nothing

\* the tuple of a result that returned one
Data(res) ==
    [date |-> res.date, day |-> res.day, hours |-> res.hours,
     comment |-> res.comment]

\* the test of line 665 left out
WorkedMutant(hours) == TRUE

\* line 665: a day of zero hours is not a day worked
Worked(hours) == hours # 0

\* lines 751-755: the balance is given in days too
InDays(balance) == balance > 450

\* lines 654-706: the body of the loop of report_lines for one tuple
ReportRecord(rec, hpd) ==
    LET expected == hpd[rec.day]
        extra == rec.hours - expected
        picture1 == show_hours(hpd, rec.day, rec.hours)
        worked == Worked(rec.hours)
        new_extra == IF worked THEN total_extra + extra ELSE total_extra
        picture2 == show_balance(IF worked THEN new_extra ELSE 0)
        row == [kind |-> "row",
                marker |-> IF rec.day = "Mon" THEN "-"
                           ELSE IF rec.day \in {"Sat", "Sun"} THEN "~" ELSE " ",
                date |-> rec.date, day |-> rec.day, hours |-> rec.hours,
                picture1 |-> picture1,
                balance |-> IF ~ with_graph THEN <<>>
                            ELSE IF worked THEN <<new_extra>> ELSE <<0>>,
                picture2 |-> IF with_graph THEN <<picture2>> ELSE <<>>,
                week |-> IF ~ with_graph /\ rec.day = "Fri"
                         THEN <<week_total + rec.hours>> ELSE <<>>,
                comment |-> rec.comment]
        yearline == IF shown_year # <<rec.date.y>>
                    THEN <<[kind |-> "year", year |-> rec.date.y]>> ELSE <<>>
    IN  /\ shown_year' = <<rec.date.y>>
        /\ expected_seen' = Append(expected_seen, expected)
        /\ days_worked' = IF worked THEN days_worked + 1 ELSE days_worked
        /\ total' = IF worked THEN total + rec.hours ELSE total
        /\ total_expected' =
              IF worked THEN total_expected + expected ELSE total_expected
        /\ total_extra' = new_extra
        /\ week_total' = IF with_graph THEN week_total
                         ELSE IF rec.day = "Fri" THEN 0
                         ELSE week_total + rec.hours
        /\ out' = out \o yearline \o <<row>>
        /\ first' = IF first = <<>> THEN <<rec.date>> ELSE first
        /\ last' = <<rec.date>>

\* lines 483-484: the line source hands over its next line
NextLine(l) ==
    /\ state = "running"
    /\ line = <<>>
    /\ lineno < MaxLines
    /\ lineno' = lineno + 1
    /\ line' = <<l>>
    /\ UNCHANGED <<cfgvars, with_graph, genvars, repvars, state, raised>>

BlankLine == \E l \in BlankLines : NextLine(l)

DirectiveLine == \E l \in ColonLines : NextLine(l)

HoursLine == \E l \in HoursLines \cup ForLines : NextLine(l)

\* the line number counted from 0
WrappedMutant(e, n) == [e EXCEPT !.lineno = n - 1]

\* line 488: the GiveUp of parse_line is raised again as a GiveUp whose
\* message begins with the number of the line
Wrapped(e, n) == [e EXCEPT !.lineno = n]

\* the rest of the turn of the loop of report_lines: parse_lines parses
\* the line (lines 485-495) and, if it yields a tuple, the body of the
\* loop of report_lines runs (lines 654-706)
ParseAndReport ==
    /\ state = "running"
    /\ line # <<>>
    /\ UNCHANGED <<with_graph, lineno>>
    /\ LET p == parse_line(Config(hours_per_day, year, project_days), line[1])
           res == p.res
       IN  /\ hours_per_day' = p.cfg.hours_per_day
           /\ year' = p.cfg.year
           /\ project_days' = p.cfg.project_days
           /\ IF res.exc = "GiveUp"
              THEN /\ state' = "raised"
                   /\ raised' = Wrapped(res, lineno)
                   /\ UNCHANGED <<genvars, repvars>>
              ELSE IF res.exc # "none"
              THEN /\ state' = "raised"
                   /\ raised' = res
                   /\ UNCHANGED <<genvars, repvars>>
              ELSE IF ~ res.rec
              THEN UNCHANGED <<genvars, repvars, state, raised>>
              ELSE IF OutOfOrder(prev, Data(res))
              THEN /\ state' = "raised"
                   /\ raised' = [GiveUp("Records out of order")
                                   EXCEPT !.date = res.date,
                                          !.before = prev[1].date]
                   /\ UNCHANGED <<genvars, repvars>>
              ELSE /\ prev' = <<Data(res)>>
                   /\ yielded' = Append(yielded, Data(res))
                   /\ ReportRecord(Data(res), p.cfg.hours_per_day)
                   /\ UNCHANGED <<state, raised>>
    /\ line' = IF state' = "raised" THEN line ELSE <<>>

\* the sum of the values of a table of hours
RECURSIVE SumOver(_, _)
SumOver(f, S) ==
    IF S = {} THEN 0
    ELSE LET x == CHOOSE x \in S : TRUE IN f[x] + SumOver(f, S \ {x})

\* lines 708-756: the line source is exhausted
EndOfInput ==
    /\ state = "running"
    /\ line = <<>>
    /\ LET blank == <<[kind |-> "blank"]>>
           sofar == IF ~ with_graph /\ last # <<>> /\ Weekday(last[1]) # 4
                    THEN <<[kind |-> "week so far", hours |-> week_total]>>
                    ELSE <<>>
           elapsed == ToOrdinal(last[1]) - ToOrdinal(first[1]) + 1
           summary == [kind |-> "summary",
                       first |-> first[1], last |-> last[1],
                       weeks |-> elapsed \div 7,
                       total |-> total, days_worked |-> days_worked,
                       project_days |-> project_days,
                       hours_per_week |-> SumOver(hours_per_day, DayNames),
                       hours_per_day |-> hours_per_day,
                       total_expected |-> total_expected,
                       balance |-> total_extra,
                       in_days |-> InDays(total_extra)]
       IN  IF first = <<>>
           THEN /\ state' = "raised"
                /\ raised' = Raise("AttributeError", "first.toordinal", "")
                /\ out' = out \o blank \o sofar
           ELSE /\ state' = "done"
                /\ out' = out \o blank \o sofar \o <<summary>>
                /\ UNCHANGED raised
    /\ UNCHANGED <<cfgvars, with_graph, lineno, line, genvars, shown_year,
                   total, total_expected, total_extra, days_worked,
                   week_total, first, last, expected_seen>>

Next ==
    \/ BlankLine \/ DirectiveLine \/ HoursLine
    \/ ParseAndReport
    \/ EndOfInput

Spec == Init /\ [][Next]_vars

(***************************************************************************)
(* Properties.  A step from a state in which a line is in hand and the     *)
(* call is running is the handling of that line, so the properties of the  *)
(* handling of a line are stated about such steps.                         *)
(***************************************************************************)
InHand == state = "running" /\ line # <<>>

\* the line in hand is not blank and is no directive
HoursText(l) == l.toks # <<>> /\ ~ StartsWithColon(l.toks[1])

Fourth(l) == IF Len(l.toks) >= 4 THEN Text(l.toks[4]) ELSE "<none>"

\* the first three tokens name a date of the year y
HeadIsDate(l, y) ==
    /\ Len(l.toks) >= 4
    /\ Capitalize(Text(l.toks[1])) \in DayNames
    /\ Capitalize(Text(l.toks[3])) \in DOMAIN MONTHS
    /\ l.toks[2].k = "int"
    /\ ValidDate(y, MONTHS[Capitalize(Text(l.toks[3]))], l.toks[2].a)

HeadDate(l, y) ==
    [y |-> y, m |-> MONTHS[Capitalize(Text(l.toks[3]))], d |-> l.toks[2].a]

CalendarDay(date) == DAYS[Weekday(date) + 1]

Last(q) == q[Len(q)]

Yielded == yielded' # yielded

----------------------------------------------------------------------------
\* C1: a record is rejected as out of order exactly when its date is
\* earlier than the date of the record yielded before it; a record of the
\* same or a later date is accepted whatever its hours and comment
C1_RejectedIffDateEarlier ==
    /\ (state = "raised" /\ raised.kind = "Records out of order")
          => DateLess(raised.date, raised.before)
    /\ \A i \in 1..(Len(yielded) - 1) :
          ~ DateLess(yielded[i + 1].date, yielded[i].date)

----------------------------------------------------------------------------
\* C2: parse_hours_line returns a record only if the day name given is
\* the weekday of (current year, month, day of month); when it is not, it
\* fails with the error that names that weekday
C2_DayNameIsWeekday ==
    [][(InHand /\ HoursText(line[1])) =>
         LET l == line[1] IN
         /\ Yielded =>
               /\ HeadIsDate(l, year)
               /\ Last(yielded').date = HeadDate(l, year)
               /\ Last(yielded').day = Capitalize(Text(l.toks[1]))
               /\ Last(yielded').day = CalendarDay(Last(yielded').date)
         /\ ( /\ FormatOk(l.toks)
              /\ HeadIsDate(l, year)
              /\ Capitalize(Text(l.toks[1])) # CalendarDay(HeadDate(l, year)) )
               => /\ state' = "raised"
                  /\ raised'.exc = "GiveUp"
                  /\ raised'.kind = "should be"
                  /\ raised'.correct = CalendarDay(HeadDate(l, year))
                  /\ yielded' = yielded
      ]_vars

\* a record was yielded, and a later line with the wrong day name was
\* rejected with the right one
C2_Witness ==
    /\ state = "raised" /\ raised.kind = "should be"
    /\ raised.correct = "Tue" /\ raised.day = "Wed"
    /\ Len(yielded) = 1

----------------------------------------------------------------------------
ForLine(l) == HoursText(l) /\ Fourth(l) = "for"

Spans(l) == SubSeq(l.toks, 5, Len(l.toks))

NonPositive(tok) ==
    tok.k = "span" /\ 60 * tok.a + tok.b >= 60 * tok.c + tok.d

AllPositive(spans) ==
    \A i \in 1..Len(spans) : spans[i].k = "span" /\ ~ NonPositive(spans[i])

\* the sum of end - start over the spans, in minutes
RECURSIVE SumOfSpans(_)
SumOfSpans(spans) ==
    IF spans = <<>> THEN 0
    ELSE (60 * Head(spans).c + Head(spans).d)
           - (60 * Head(spans).a + Head(spans).b) + SumOfSpans(Tail(spans))

\* C3: the hours of a "for" record whose timespans all match the pattern
\* with start < end are the sum of end - start over its spans, for every
\* hour 0..99 and minute 00..99
C3_HoursAreSumOfSpans ==
    [][(InHand /\ ForLine(line[1]) /\ AllPositive(Spans(line[1])) /\ Yielded)
          => Last(yielded').hours = SumOfSpans(Spans(line[1]))
      ]_vars

----------------------------------------------------------------------------
HasNonPositive(spans) == \E i \in 1..Len(spans) : NonPositive(spans[i])

\* every span written before the first non-positive one matches the pattern
WellFormedBefore(spans) ==
    \A i \in 1..Len(spans) :
        (\A j \in 1..(i - 1) : ~ NonPositive(spans[j])) /\ NonPositive(spans[i])
          => \A j \in 1..(i - 1) : spans[j].k = "span"

\* C4, as claimed: a "for" record with a timespan whose start is not
\* before its end always fails with the "not a positive timespan" error
C4_AlwaysNotPositiveError ==
    [][(InHand /\ ForLine(line[1]) /\ HasNonPositive(Spans(line[1])))
          => /\ state' = "raised"
             /\ raised'.kind = "not a positive timespan"
             /\ yielded' = yielded
      ]_vars

\* C4, amended: such a record always fails and yields nothing; the error
\* is "not a positive timespan" when its day name, day and month are those
\* of a date of the current year and every span before the first
\* non-positive one matches the pattern
C4_NonPositiveFails ==
    [][(InHand /\ ForLine(line[1]) /\ HasNonPositive(Spans(line[1])))
          => LET l == line[1] IN
             /\ state' = "raised"
             /\ yielded' = yielded
             /\ ( /\ HeadIsDate(l, year)
                  /\ Capitalize(Text(l.toks[1])) = CalendarDay(HeadDate(l, year))
                  /\ WellFormedBefore(Spans(l)) )
                   => /\ raised'.exc = "GiveUp"
                      /\ raised'.kind = "not a positive timespan"
      ]_vars

\* the second span of a record is the one that is not positive
C4_Witness ==
    /\ state = "raised" /\ raised.kind = "not a positive timespan"
    /\ line # <<>> /\ Len(line[1].toks) = 6
    /\ ~ NonPositive(line[1].toks[5]) /\ NonPositive(line[1].toks[6])

----------------------------------------------------------------------------
KeywordLine(l) == HoursText(l) /\ Fourth(l) \in {"holiday", "pubhol", "sick"}

ColonLine(l) == l.toks # <<>> /\ StartsWithColon(l.toks[1])

ColonWord(l) == Text(l.toks[1])

aggregates == <<days_worked, total, total_expected, total_extra>>

\* C5: the hours of a holiday, pubhol or sick record are the expected
\* hours of its day name in the table as it is when the line is parsed;
\* an :expect directive changes neither the records yielded before it nor
\* what was accumulated and printed from them
C5_KeywordHoursFixedAtParse ==
    [][InHand =>
         LET l == line[1] IN
         /\ (KeywordLine(l) /\ Yielded)
               => Last(yielded').hours = hours_per_day[Last(yielded').day]
         /\ (ColonLine(l) /\ ColonWord(l) = ":expect")
               => /\ yielded' = yielded
                  /\ aggregates' = aggregates
                  /\ out' = out
      ]_vars

\* a Monday was recorded as a holiday of 7.5 hours, and the expected hours
\* of Monday were set to 6.0 after it
C5_Witness ==
    /\ state = "running" /\ line = <<>> /\ lineno = 2
    /\ Len(yielded) = 1 /\ yielded[1].day = "Mon"
    /\ yielded[1].hours = 450 /\ hours_per_day["Mon"] = 360
    /\ total = 450 /\ total_expected = 450 /\ total_extra = 0

----------------------------------------------------------------------------
\* the parts that name the day d, by their places
PartsOf(parts, d) == {i \in 1..Len(parts) : Capitalize(parts[i].day) = d}

MaxOf(S) == CHOOSE i \in S : \A j \in S : j <= i

Reverse(q) == [i \in 1..Len(q) |-> q[Len(q) + 1 - i]]

DistinctDays(parts) ==
    \A i, j \in 1..Len(parts) :
        i # j => Capitalize(parts[i].day) # Capitalize(parts[j].day)

\* C6: a successful :expect sets the expected hours of exactly the days it
\* names, whatever their case, to the last value given for each, and
\* leaves the other days as they were; applying it again changes nothing,
\* and the order of entries for different days does not matter
C6_ExpectSetsNamedDays ==
    [][(InHand /\ ColonLine(line[1]) /\ ColonWord(line[1]) = ":expect"
          /\ state' = "running") =>
         LET parts == line[1].parts IN
         /\ \A d \in DayNames :
               hours_per_day'[d] =
                 IF PartsOf(parts, d) = {} THEN hours_per_day[d]
                 ELSE FloatValue(parts[MaxOf(PartsOf(parts, d))].val)
         /\ set_hours(hours_per_day', parts, 1).hours_per_day = hours_per_day'
         /\ DistinctDays(parts) =>
               set_hours(hours_per_day, Reverse(parts), 1).hours_per_day
                 = hours_per_day'
      ]_vars

\* one directive, with entries for two days, one of them in lower case
C6_Witness ==
    /\ state = "running" /\ line = <<>> /\ lineno = 1
    /\ hours_per_day["Mon"] = 360 /\ hours_per_day["Tue"] = 360
    /\ hours_per_day["Wed"] = 450

----------------------------------------------------------------------------
\* C7: a directive yields no record and changes no field of the
\* configuration but its own; a record is dated in the year the most
\* recent :year before it set (the year changes at a :year only), and it
\* leaves the records yielded before it as they are
C7_DirectivesArePositional ==
    [][InHand =>
         LET l == line[1] IN
         /\ ColonLine(l) =>
               /\ yielded' = yielded /\ prev' = prev
               /\ aggregates' = aggregates /\ out' = out
               /\ ColonWord(l) # ":year" => year' = year
               /\ ColonWord(l) # ":days" => project_days' = project_days
               /\ ColonWord(l) # ":expect" => hours_per_day' = hours_per_day
         /\ year' # year =>
               /\ ColonLine(l) /\ ColonWord(l) = ":year"
               /\ Len(l.toks) = 2 /\ l.toks[2] = IntTok(year')
         /\ ~ ColonLine(l) => UNCHANGED cfgvars
         /\ Yielded =>
               /\ Last(yielded').date.y = year
               /\ Len(yielded') = Len(yielded) + 1
               /\ SubSeq(yielded', 1, Len(yielded)) = yielded
      ]_vars

\* :year 2003, then a record, which is dated in 2003
C7_Witness ==
    /\ state = "running" /\ line = <<>> /\ lineno = 2
    /\ year = 2003 /\ Len(yielded) = 1 /\ yielded[1].date.y = 2003

----------------------------------------------------------------------------
WorkedRecords == {i \in 1..Len(yielded) : yielded[i].hours # 0}

RECURSIVE SumAt(_, _)
SumAt(f, S) ==
    IF S = {} THEN 0
    ELSE LET i == CHOOSE i \in S : TRUE IN f[i] + SumAt(f, S \ {i})

\* C8: after any prefix of records, days worked is the number of records
\* so far with hours other than zero, total hours the sum of their hours,
\* total expected the sum of the expected hours each of them met, and the
\* balance total hours less total expected
C8_AggregatesOfWorkedRecords ==
    /\ Len(expected_seen) = Len(yielded)
    /\ days_worked = Cardinality(WorkedRecords)
    /\ total = SumAt([i \in 1..Len(yielded) |-> yielded[i].hours], WorkedRecords)
    /\ total_expected = SumAt(expected_seen, WorkedRecords)
    /\ total_extra = total - total_expected

\* a day of six hours and then a day of no hours, on which 7.5 were expected
C8_Witness ==
    /\ Len(yielded) = 2
    /\ yielded[1].hours = 360 /\ yielded[2].hours = 0
    /\ expected_seen = <<450, 450>>
    /\ days_worked = 1 /\ total = 360 /\ total_extra = -90

----------------------------------------------------------------------------
\* C9: the data fields are rejected with the format error exactly when
\* they are fewer than 4 tokens, or more than 4 while the 4th is none of
\* for, holiday, pubhol, sick
C9_FormatErrorExactly ==
    [][(InHand /\ HoursText(line[1])) =>
         LET l == line[1] IN
         (state' = "raised" /\ raised'.kind = "format")
           <=> \/ Len(l.toks) < 4
               \/ /\ Len(l.toks) > 4
                  /\ Fourth(l) \notin {"for", "holiday", "pubhol", "sick"}
      ]_vars

----------------------------------------------------------------------------
\* C10: report_lines runs to completion or fails with GiveUp; no other
\* exception escapes it
C10_OnlyGiveUpEscapes == state = "raised" => raised.exc = "GiveUp"

----------------------------------------------------------------------------
\* the rows printed so far, in the order printed
Rows(printed) == SelectSeq(printed, LAMBDA r : r.kind = "row")

\* the rows are those of the tuples q, one each and in the same order
RowsAreOf(printed, q) ==
    LET rows == Rows(printed) IN
    /\ Len(rows) = Len(q)
    /\ \A i \in 1..Len(q) :
          /\ rows[i].date = q[i].date /\ rows[i].day = q[i].day
          /\ rows[i].hours = q[i].hours /\ rows[i].comment = q[i].comment

HasSummary(printed) == \E i \in 1..Len(printed) : printed[i].kind = "summary"

\* a line failed: parse_lines raised while dealing with the line in hand
LineFailed == state = "raised" /\ line # <<>>

\* the line in hand is a well-formed record that sorts before the tuple
\* yielded last
SortsBeforeLast ==
    LET res == parse_line(Config(hours_per_day, year, project_days),
                          line[1]).res
    IN  /\ res.exc = "none" /\ res.rec
        /\ prev # <<>>
        /\ TupleLess(Data(res), prev[1])

\* C11: once a line fails processing stops at that line: the failing line
\* yields no tuple and prints no row (a record that sorts before the one
\* yielded last is such a line), nothing happens after the failure (no
\* line is taken or parsed, no directive applied, no row and no summary
\* printed), and the rows printed are those of the tuples yielded from the
\* lines before it, in input order
C11_StopsAtFailingLine ==
    [][/\ state # "raised"
       /\ (InHand /\ SortsBeforeLast) => state' = "raised"
       /\ (InHand /\ state' = "raised") =>
             /\ UNCHANGED <<lineno, genvars, repvars>>
             /\ line' = line
       /\ LineFailed' =>
             /\ RowsAreOf(out', yielded')
             /\ ~ HasSummary(out')
      ]_vars

\* the first line gave a row and the second line failed
C11_Witness ==
    /\ LineFailed
    /\ lineno = 2
    /\ Len(yielded) = 1 /\ Len(Rows(out)) = 1
    /\ raised.kind = "Records out of order"

----------------------------------------------------------------------------
\* C12 as claimed, for the failures it lists (directive errors, record
\* errors and the rejection of a record as out of order, all of them
\* GiveUp): the failure of the n-th line carries line number n
C12_EveryLineFailureNumbered ==
    (LineFailed /\ raised.exc = "GiveUp") => raised.lineno = lineno

\* C12: a GiveUp raised by parse_line for the n-th line taken carries
\* line number n; the rejection of a record as out of order, and an
\* exception that is no GiveUp, carry no line number
C12_ParseFailureNumbered ==
    LineFailed =>
       /\ lineno >= 1
       /\ IF raised.exc = "GiveUp" /\ raised.kind # "Records out of order"
          THEN raised.lineno = lineno
          ELSE raised.lineno = 0

\* a directive error in the second line
C12_Witness ==
    /\ LineFailed
    /\ lineno = 2
    /\ raised.kind = "Unrecognised colon-command"
    /\ raised.lineno = 2

----------------------------------------------------------------------------
\* a record of no hours was yielded and its row printed, with the graph
ZeroHoursRow == InHand /\ with_graph /\ Yielded /\ Last(yielded').hours = 0

\* C13 as claimed: with the balance graph, the row of a record of zero
\* hours shows the value and the bar of the cumulative balance as it stood
\* after the record before it, and the balance is left as it was
C13_ZeroHoursShowsPreviousBalance ==
    [][ZeroHoursRow =>
          /\ Last(out').balance = <<total_extra>>
          /\ Last(out').picture2 = <<show_balance(total_extra)>>
          /\ total_extra' = total_extra
      ]_vars

\* C13: with the balance graph, the row of a record of zero hours shows
\* the balance value 0.0 and the bar of a balance of zero (8 spaces, the
\* marker, 30 spaces), whatever the cumulative balance is, and the
\* cumulative balance is left as it was
C13_ZeroHoursShowsZero ==
    [][ZeroHoursRow =>
          /\ Last(out').balance = <<0>>
          /\ Last(out').picture2 =
                <<[lspace |-> 8, minus |-> 0, plus |-> 0, rspace |-> 30]>>
          /\ total_extra' = total_extra
      ]_vars

\* a day of six hours, then a day of no hours while the balance is -1.5
C13_Witness ==
    /\ with_graph
    /\ Len(yielded) = 2 /\ yielded[1].hours = 360 /\ yielded[2].hours = 0
    /\ total_extra = -90
    /\ Last(out).kind = "row" /\ Last(out).balance = <<0>>

----------------------------------------------------------------------------
Abs(x) == IF x < 0 THEN -x ELSE x

\* no record yielded has hours below zero
HoursNotNegative == \A i \in 1..Len(yielded) : yielded[i].hours >= 0

\* C14: the summary gives the balance in days as well as in hours exactly
\* when the magnitude of the balance is more than one day of 7.5 hours,
\* be the balance positive or negative (stated for reports whose records
\* all have hours of zero or more)
C14_DaysWhenMagnitudeOverADay ==
    (state = "done" /\ HoursNotNegative) =>
       /\ Last(out).kind = "summary"
       /\ Last(out).balance = total_extra
       /\ Last(out).in_days <=> Abs(total_extra) > 450

----------------------------------------------------------------------------
\* C15: every record the parser yields has hours of zero or more, whether
\* they come from a decimal literal, from timespans or from a keyword
C15_YieldedHoursNotNegative ==
    \A rec \in {yielded[i] : i \in 1..Len(yielded)} : rec.hours >= 0

----------------------------------------------------------------------------
\* the cells of a picture of hours before its closing delimiter
Cells(picture) == picture.stars + picture.miss + picture.extr + picture.pad

\* C16: in every row the picture of the hours takes exactly 22 cells
\* before its closing delimiter, whatever the hours and the expected
\* hours are
C16_HoursBarIsFixedWidth ==
    \A i \in 1..Len(out) :
       out[i].kind = "row" => Cells(out[i].picture1) = 22

----------------------------------------------------------------------------
\* the rows that have a picture of the balance
BalanceRows == {i \in 1..Len(out) : out[i].kind = "row" /\ out[i].picture2 # <<>>}

\* the cells of a picture of the balance to the left of its marker
LeftCells(picture) == picture.lspace + picture.minus

\* C17 as claimed: in every row the marker of the balance bar has the same
\* 8 cells to its left, whatever the balance (stated for records whose
\* hours are zero or more)
C17_MarkerAlwaysAtEight ==
    HoursNotNegative =>
       \A i \in BalanceRows : LeftCells(out[i].picture2[1]) = 8

\* C17: the marker of the balance bar has 8 cells to its left in every
\* row whose balance is no less than 8 half hours below zero (above -4.5
\* hours); below that the run of minus signs is all that is to its left,
\* one cell for each half hour
C17_MarkerAtEightDownToMinusFour ==
    \A i \in BalanceRows :
       LET count == HalfHours(out[i].balance[1])
       IN  LeftCells(out[i].picture2[1]) = IF count >= -8 THEN 8 ELSE -count

\* a row with a balance of -1.5 hours: 5 spaces and 3 minus signs
C17_Witness ==
    \E i \in BalanceRows :
       /\ out[i].balance = <<-90>>
       /\ out[i].picture2[1].lspace = 5 /\ out[i].picture2[1].minus = 3

====
